---- MODULE Spec2Model ----
(***************************************************************************)
(* Model of pkg/tar/stream.go: Stream (directory -> tar stream) with its   *)
(* handlers StreamFile / StreamRenameFile / SinceFilterTarFile, and        *)
(* Restore (tar stream -> directory) with extractFile and                  *)
(* CreateFileFromTar.                                                      *)
(*                                                                         *)
(* A path is a sequence of segments; a tar entry is a record with the      *)
(* header fields the code reads (name, type, mode, size) and the payload   *)
(* bytes behind it.  The destination filesystem maps a path to a node.     *)
(* Library calls (archive/tar, io.CopyN, os, pkg/file) are modelled by     *)
(* their documented results; an I/O failure of the environment is a        *)
(* nondeterministic choice at the call that can fail.                      *)
(*                                                                         *)
(* A behaviour is one of: Stream followed by Restore of its output; Restore *)
(* of an arbitrary archive; one direct call of StreamRenameFile; Restore   *)
(* of an arbitrary archive that stops or fails and is run again.           *)
(***************************************************************************)
EXTENDS Integers, Sequences, FiniteSets, TLC

VARIABLES
    scenario,     \* "roundtrip": Stream, then Restore of its output; "restore": Restore of any archive;
                  \* "rename": one direct call of StreamRenameFile; "rerun": Restore of any
                  \* archive, interrupted or failed, then run again
    tree,         \* ids of the entries below the root of the directory being archived
    keepTarOpen,  \* Stream's keepTarOpen argument
    writeFunc,    \* Stream's writeFunc argument: "nil" or "SinceFilter"
    spc,          \* Stream's position: "idle", "walk", "fn", "return", "done"; "call", "called" for a direct call
    widx,         \* index in WalkOrder of the next entry filepath.Walk visits
    cur,          \* the os.FileInfo of the entry the walk function was called with last
    sink,         \* the entries written to the tar writer, in order
    twErr,        \* the tar writer's sticky write error is set
    trailer,      \* the end-of-archive marker has been written to the sink
    serr,         \* the error filepath.Walk returns
    sres,         \* what Stream returned ("none" while it runs)
    tarHeaderFileName, \* the name a direct call of StreamRenameFile is given
    calls,        \* the handler's invocations so far: entry and logical path
    frOpen,       \* number of source files StreamRenameFile holds open
    rpc,          \* Restore's position
    arch,         \* the entries of the archive not yet decoded
    nread,        \* number of headers decoded by tr.Next
    hdr,          \* the header tr.Next returned last
    fs,           \* the filesystem holding the destination directory
    fs0,          \* the filesystem as it was when hdr was decoded
    copied,       \* bytes io.CopyN has written into the temporary file
    fOpen,        \* the temporary file's handle is open
    rerr,         \* the error extractFile returns
    rres,         \* what Restore returned ("none" while it runs)
    run,          \* 1 in the first run of Restore, 2 in its re-run
    seen          \* scenario "rerun": the entries the current run has decoded

streamVars == <<tree, keepTarOpen, writeFunc, spc, widx, cur, sink, twErr, trailer, serr, sres,
                tarHeaderFileName, calls, frOpen>>
restoreVars == <<rpc, arch, nread, hdr, fs, fs0, copied, fOpen, rerr, rres, run, seen>>
vars == <<scenario, streamVars, restoreVars>>

-----------------------------------------------------------------------------
(* Bounds of the model.                                                    *)

\* largest declared size of an entry of an arbitrary archive
MaxSize == 2
\* largest number of entries of an arbitrary archive
MaxEntries == 2
\* modification times are 1..MaxTime
MaxTime == 3

-----------------------------------------------------------------------------
(* Program constants.                                                      *)

\* sections[3:]: the number of leading segments extractFile discards
PrefixLen == 3
\* len(sections) < 3: the smallest number of segments extractFile accepts
MinSections == 3
\* 0755, the mode of the parent directories extractFile creates
DefaultDirPerm == 493
\* os.FileMode.Perm keeps the low nine bits
PermMask == 512
\* the cutoff passed to SinceFilterTarFile
since == 2

\* Stream's relativePath argument: database / retention policy / shard id
relativePath == <<"db", "rp", "1">>
\* Stream's dir argument and its base name
srcDir == <<"src">>
\* Restore's dir argument
dstDir == <<"dst">>

-----------------------------------------------------------------------------
(* path/filepath                                                           *)

Last(s) == s[Len(s)]
Front(s) == SubSeq(s, 1, Len(s) - 1)

RECURSIVE CleanFrom(_, _, _)
\* filepath.Clean on segments: "" and "." are dropped, ".." removes the
\* segment before it; a leading ".." is kept in a relative path and dropped
\* at the root of a rooted one.
CleanFrom(stack, rest, rooted) ==
    IF rest = <<>> THEN stack
    ELSE LET s == Head(rest) IN
         IF s = "" \/ s = "." THEN CleanFrom(stack, Tail(rest), rooted)
         ELSE IF s = ".." THEN
                  IF stack # <<>> /\ Last(stack) # ".."
                  THEN CleanFrom(Front(stack), Tail(rest), rooted)
                  ELSE IF rooted THEN CleanFrom(stack, Tail(rest), rooted)
                  ELSE CleanFrom(Append(stack, s), Tail(rest), rooted)
         ELSE CleanFrom(Append(stack, s), Tail(rest), rooted)

\* filepath.Join of relative elements
Join(a, b) == CleanFrom(<<>>, a \o b, FALSE)
\* filepath.Join whose first element is a rooted directory
JoinRooted(a, b) == CleanFrom(<<>>, a \o b, TRUE)

\* filepath.Split: the directory part of a path (all but the last segment)
SplitDir(p) == IF p = <<>> THEN <<>> ELSE Front(p)

\* filepath.Rel(base, target) for a target at or below base
Rel(base, target) ==
    IF target = base THEN <<".">>
    ELSE SubSeq(target, Len(base) + 1, Len(target))

-----------------------------------------------------------------------------
(* The directory tree being archived.                                      *)

\* filepath.Walk visits the root first, then its entries in lexical order,
\* a directory before its children.
WalkOrder == <<0, 1, 2, 3, 4>>

NodeRel(id) ==
    CASE id = 0 -> <<>>
      [] id = 1 -> <<"a">>
      [] id = 2 -> <<"d">>
      [] id = 3 -> <<"d", "f">>
      [] id = 4 -> <<"l">>

NodeKind(id) ==
    CASE id = 0 -> "dir"
      [] id = 1 -> "reg"
      [] id = 2 -> "dir"
      [] id = 3 -> "reg"
      [] id = 4 -> "sym"

NodePerm(id) ==
    CASE id = 0 -> 493
      [] id = 1 -> 420
      [] id = 2 -> 448
      [] id = 3 -> 384
      [] id = 4 -> 511

NodeContent(id) ==
    CASE id = 1 -> <<1, 2>>
      [] id = 3 -> <<3>>
      [] OTHER -> <<>>

NodePath(id) == srcDir \o NodeRel(id)
NodeName(id) == Last(NodePath(id))

Trees == {t \in SUBSET {1, 2, 3, 4} : 3 \in t => 2 \in t}

NoInfo == [id |-> -1, kind |-> "none", perm |-> 0, size |-> 0, mtime |-> 0]

\* os.Lstat of an entry: the file info the walk function receives
Lstat(id, mtime) ==
    [id |-> id, kind |-> NodeKind(id), perm |-> NodePerm(id),
     size |-> Len(NodeContent(id)), mtime |-> mtime]

-----------------------------------------------------------------------------
(* Tar entries.                                                            *)

NoHdr == [name |-> <<>>, type |-> "none", mode |-> 0, size |-> 0, data |-> <<>>]

\* tar.FileInfoHeader: mode, size and type of the header built from a file
\* info; only a regular file has a size.
FileInfoHeader(f) ==
    [name |-> <<NodeName(f.id)>>,
     type |-> f.kind,
     mode |-> f.perm,
     size |-> IF f.kind = "reg" THEN f.size ELSE 0,
     data |-> <<>>]

Min(a, b) == IF a < b THEN a ELSE b


\* a copy that does not report a source that ends early
CopyNoShortCheck(n, avail) ==
    [written |-> Min(n, avail), err |-> "nil"]

\* io.CopyN(dst, src, n) when src yields `avail` bytes before its end and
\* every write succeeds: n bytes at most are copied, and a source that ends
\* early is reported as io.EOF.
CopyN(n, avail) ==
    [written |-> Min(n, avail), err |-> IF Min(n, avail) < n THEN "EOF" ELSE "nil"]

-----------------------------------------------------------------------------
(* Stream and its handlers.                                                *)

\* What the environment decides during one call of StreamRenameFile: whether
\* the header write, the open and the payload writes succeed, and how many
\* bytes the file yields when read (it may have shrunk or grown since Lstat).
StreamEnvs(f) ==
    [hdrOK : BOOLEAN, openOK : BOOLEAN, writeOK : BOOLEAN,
     avail : {n \in 0..(f.size + 1) : n >= f.size - 1}]

\* a StreamRenameFile that records the entry under the file's on-disk name
StreamKeepDiskName(f, tarHeaderFileName_, shardRelativePath, env) ==
    LET h == [FileInfoHeader(f) EXCEPT !.name = Join(shardRelativePath, <<NodeName(f.id)>>)]
        c == CopyN(h.size, env.avail)
    IN  IF ~env.hdrOK
        THEN [sink |-> sink, twErr |-> TRUE, err |-> "EIO"]
        ELSE IF f.kind # "reg"
        THEN [sink |-> Append(sink, h), twErr |-> twErr, err |-> "nil"]
        ELSE IF ~env.openOK
        THEN [sink |-> Append(sink, h), twErr |-> twErr, err |-> "EIO"]
        ELSE IF ~env.writeOK /\ c.written > 0
        THEN [sink |-> Append(sink, h), twErr |-> TRUE, err |-> "EIO"]
        ELSE [sink |-> Append(sink, [h EXCEPT !.data = SubSeq(NodeContent(f.id), 1, c.written)]),
              twErr |-> twErr, err |-> c.err]

\* StreamRenameFile: the sink, the writer's error state and the error it
\* returns, as the record [sink, twErr, err].
StreamRenameFile(f, tarHeaderFileName_, shardRelativePath, env) ==
    LET h == [FileInfoHeader(f) EXCEPT !.name = Join(shardRelativePath, <<tarHeaderFileName_>>)]
        c == CopyN(h.size, env.avail)
    IN  IF ~env.hdrOK
        THEN [sink |-> sink, twErr |-> TRUE, err |-> "EIO"]
        ELSE IF f.kind # "reg"
        THEN [sink |-> Append(sink, h), twErr |-> twErr, err |-> "nil"]
        ELSE IF ~env.openOK
        THEN [sink |-> Append(sink, h), twErr |-> twErr, err |-> "EIO"]
        ELSE IF ~env.writeOK /\ c.written > 0
        THEN [sink |-> Append(sink, h), twErr |-> TRUE, err |-> "EIO"]
        ELSE [sink |-> Append(sink, [h EXCEPT !.data = SubSeq(NodeContent(f.id), 1, c.written)]),
              twErr |-> twErr, err |-> c.err]

\* StreamFile: the entry is recorded under the file's own base name.
StreamFile(f, shardRelativePath, env) ==
    StreamRenameFile(f, NodeName(f.id), shardRelativePath, env)

\* a filter that also lets through a file modified exactly at the cutoff
ModTimeNotBeforeSince(f) == f.mtime >= since

\* the test of the handler SinceFilterTarFile returns: f.ModTime().After(since)
ModTimeAfterSince(f) == f.mtime > since

\* the handler SinceFilterTarFile(since) returns
SinceFilterTarFile(f, shardRelativePath, env) ==
    IF ModTimeAfterSince(f)
    THEN StreamFile(f, shardRelativePath, env)
    ELSE [sink |-> sink, twErr |-> twErr, err |-> "nil"]

\* writeFunc as Stream calls it: nil stands for StreamFile.
CallWriteFunc(f, shardRelativePath, env) ==
    IF writeFunc = "nil"
    THEN StreamFile(f, shardRelativePath, env)
    ELSE SinceFilterTarFile(f, shardRelativePath, env)

\* the root of the walk: dir == path && f.IsDir()
IsRoot(f) == NodePath(f.id) = srcDir /\ f.kind = "dir"

\* a logical path that leaves out the entry's sub-directories
ShardRelativePathFlat(f) == relativePath

\* the logical path the handler gets for a non-root entry:
\* filepath.Join(relativePath, Rel(dir, Split(path)))
ShardRelativePath(f) ==
    Join(relativePath, Rel(srcDir, SplitDir(NodePath(f.id))))

\* indexes of WalkOrder, from widx on, of entries that exist
Pending == {i \in widx..Len(WalkOrder) : WalkOrder[i] = 0 \/ WalkOrder[i] \in tree}

\* filepath.Walk reaches the next entry and calls the walk function with its
\* file info, or with the error of the failed Lstat, which the walk function
\* returns at once.
WalkNext ==
    /\ spc = "walk"
    /\ Pending # {}
    /\ LET i == CHOOSE k \in Pending : \A m \in Pending : k <= m IN
       \E mtime \in 1..MaxTime, ok \in BOOLEAN :
          IF ok
          THEN /\ cur' = Lstat(WalkOrder[i], mtime)
               /\ widx' = i + 1
               /\ spc' = "fn"
               /\ serr' = serr
          ELSE /\ serr' = "EIO"
               /\ spc' = "return"
               /\ UNCHANGED <<cur, widx>>
    /\ UNCHANGED <<scenario, tree, keepTarOpen, writeFunc, sink, twErr, trailer, sres,
                   tarHeaderFileName, calls, frOpen, restoreVars>>

\* the walk function calls the handler for every entry but the root, and for
\* the root when keepTarOpen is set
HandlerCalled(f) == ~IsRoot(f) \/ keepTarOpen

\* the logical path the handler is called with
HandlerPath(f) == IF IsRoot(f) THEN relativePath ELSE ShardRelativePath(f)

\* the handler passes the entry on to StreamFile
WritesFile(f) == writeFunc = "nil" \/ ModTimeAfterSince(f)

\* os.Open(fullPath) in StreamRenameFile: the number of handles it opens,
\* one when the header was written, the file is regular and the open succeeds
SourceOpened(f, env) ==
    IF env.hdrOK /\ f.kind = "reg" /\ env.openOK THEN 1 ELSE 0

\* a StreamRenameFile without the deferred close
NoDeferredClose(opened) == 0

\* defer fr.Close(): the number of handles closed when StreamRenameFile
\* returns, on every path after the open
DeferredClose(opened) == opened

\* a walk function whose error does not stop the walk
WalkFnIgnoringError ==
    /\ spc = "fn"
    /\ \E env \in StreamEnvs(cur) :
          LET r == IF IsRoot(cur)
                   THEN IF keepTarOpen
                        THEN CallWriteFunc(cur, relativePath, env)
                        ELSE [sink |-> sink, twErr |-> twErr, err |-> "nil"]
                   ELSE CallWriteFunc(cur, ShardRelativePath(cur), env)
          IN  /\ sink' = r.sink
              /\ twErr' = r.twErr
              /\ serr' = r.err
              /\ spc' = "walk"
              /\ calls' = IF HandlerCalled(cur)
                          THEN Append(calls, [id |-> cur.id, path |-> HandlerPath(cur)])
                          ELSE calls
              /\ frOpen' = IF HandlerCalled(cur) /\ WritesFile(cur)
                           THEN frOpen + SourceOpened(cur, env) - DeferredClose(SourceOpened(cur, env))
                           ELSE frOpen
    /\ UNCHANGED <<scenario, tree, keepTarOpen, writeFunc, widx, cur, trailer, sres,
                   tarHeaderFileName, restoreVars>>

\* the walk function of Stream, called with a file info
WalkFn ==
    /\ spc = "fn"
    /\ \E env \in StreamEnvs(cur) :
          LET r == IF IsRoot(cur)
                   THEN IF keepTarOpen
                        THEN CallWriteFunc(cur, relativePath, env)
                        ELSE [sink |-> sink, twErr |-> twErr, err |-> "nil"]
                   ELSE CallWriteFunc(cur, ShardRelativePath(cur), env)
          IN  /\ sink' = r.sink
              /\ twErr' = r.twErr
              /\ serr' = r.err
              /\ spc' = IF r.err = "nil" THEN "walk" ELSE "return"
              /\ calls' = IF HandlerCalled(cur)
                          THEN Append(calls, [id |-> cur.id, path |-> HandlerPath(cur)])
                          ELSE calls
              /\ frOpen' = IF HandlerCalled(cur) /\ WritesFile(cur)
                           THEN frOpen + SourceOpened(cur, env) - DeferredClose(SourceOpened(cur, env))
                           ELSE frOpen
    /\ UNCHANGED <<scenario, tree, keepTarOpen, writeFunc, widx, cur, trailer, sres,
                   tarHeaderFileName, restoreVars>>

\* filepath.Walk has visited every entry and returns nil
WalkEnd ==
    /\ spc = "walk"
    /\ Pending = {}
    /\ spc' = "return"
    /\ serr' = "nil"
    /\ UNCHANGED <<scenario, tree, keepTarOpen, writeFunc, widx, cur, sink, twErr, trailer, sres,
                   tarHeaderFileName, calls, frOpen, restoreVars>>

\* the last entry of the sink lacks payload bytes its header declared
MissedBytes == sink # <<>> /\ Len(Last(sink).data) < Last(sink).size

\* Stream returns what filepath.Walk returned; the deferred tw.Flush or
\* tw.Close runs and its result is dropped.  Close writes the end-of-archive
\* marker unless the writer is in error, bytes are missing or the write fails.
StreamReturn ==
    /\ spc = "return"
    /\ \E closeOK \in BOOLEAN :
          trailer' = IF keepTarOpen THEN FALSE
                     ELSE (~twErr /\ ~MissedBytes /\ closeOK)
    /\ sres' = serr
    /\ spc' = "done"
    /\ UNCHANGED <<scenario, tree, keepTarOpen, writeFunc, widx, cur, sink, twErr, serr,
                   tarHeaderFileName, calls, frOpen, restoreVars>>

\* the names a caller of StreamRenameFile may record an entry under
TarNames == {"a", "f", "n"}

\* one direct call of StreamRenameFile, as a custom handler makes it: for an
\* entry of the tree, with the logical path of its directory and the
\* caller's name for it
StreamRenameFileCall ==
    /\ spc = "call"
    /\ \E id \in tree, mtime \in 1..MaxTime :
          LET f == Lstat(id, mtime) IN
          \E env \in StreamEnvs(f) :
             LET r == StreamRenameFile(f, tarHeaderFileName, ShardRelativePath(f), env) IN
             /\ cur' = f
             /\ sink' = r.sink
             /\ twErr' = r.twErr
             /\ serr' = r.err
             /\ calls' = Append(calls, [id |-> id, path |-> ShardRelativePath(f)])
             /\ frOpen' = frOpen + SourceOpened(f, env) - DeferredClose(SourceOpened(f, env))
    /\ spc' = "called"
    /\ UNCHANGED <<scenario, tree, keepTarOpen, writeFunc, widx, trailer, sres,
                   tarHeaderFileName, restoreVars>>

-----------------------------------------------------------------------------
(* The destination filesystem.                                             *)

\* the file or directory at the path made of these segments
F(segs) == [segs |-> segs, tmp |-> FALSE]
\* the path p + ".tmp"
TmpOf(p) == [p EXCEPT !.tmp = TRUE]

DirNode(perm) == [kind |-> "dir", perm |-> perm, data |-> <<>>]
FileNode(perm, data) == [kind |-> "file", perm |-> perm, data |-> data]

IsDirAt(f, p) == p \in DOMAIN f /\ f[p].kind = "dir"
IsFileAt(f, p) == p \in DOMAIN f /\ f[p].kind = "file"

\* f with node n at path p
Put(f, p, n) == [q \in DOMAIN f \cup {p} |-> IF q = p THEN n ELSE f[q]]
\* f without path p
Remove(f, p) == [q \in DOMAIN f \ {p} |-> f[q]]

\* os.FileMode(hdr.Mode).Perm()
Perm(mode) == mode % PermMask

\* the paths of segs and of its ancestors below the filesystem's root
Ancestors(segs) == {F(SubSeq(segs, 1, i)) : i \in 1..Len(segs)}

\* os.MkdirAll(path, perm): the directory and its missing ancestors are
\* created with perm; it fails when one of them exists and is no directory.
MkdirAll(f, segs, perm) ==
    IF \E p \in Ancestors(segs) : IsFileAt(f, p)
    THEN [fs |-> f, err |-> "ENOTDIR"]
    ELSE [fs |-> [q \in DOMAIN f \cup Ancestors(segs) |->
                     IF q \in DOMAIN f THEN f[q] ELSE DirNode(perm)],
          err |-> "nil"]

\* os.OpenFile(p, O_CREATE|O_RDWR, perm): an existing file is opened as it
\* is, with its contents; a missing one is created empty with perm.
OpenFile(f, p, perm) ==
    IF IsDirAt(f, p) THEN [fs |-> f, err |-> "EISDIR"]
    ELSE IF IsFileAt(f, p) THEN [fs |-> f, err |-> "nil"]
    ELSE IF Len(p.segs) > 1 /\ ~IsDirAt(f, F(Front(p.segs)))
    THEN [fs |-> f, err |-> "ENOENT"]
    ELSE [fs |-> Put(f, p, FileNode(perm, <<>>)), err |-> "nil"]

\* a write of byte b at offset off of a file's contents
WriteAt(data, off, b) ==
    IF off < Len(data) THEN [data EXCEPT ![off + 1] = b] ELSE Append(data, b)

\* file.RenameFile(old, new): the file at old replaces the one at new in one
\* step; it fails, changing nothing, when new is a directory.
RenameFile(f, old, new) ==
    IF IsDirAt(f, new) THEN [fs |-> f, err |-> "EISDIR"]
    ELSE [fs |-> Remove(Put(f, new, f[old]), old), err |-> "nil"]

\* the result of file.SyncDir(dir)
SyncDir(f, segs, ok) ==
    IF ~IsDirAt(f, F(segs)) THEN "ENOTDIR" ELSE IF ok THEN "nil" ELSE "EIO"

-----------------------------------------------------------------------------
(* Restore, extractFile and CreateFileFromTar.                             *)

\* len(sections) < 3
TooFewSections(sections) == Len(sections) < MinSections

\* a relative path that keeps the last segment of the prefix
RelativePathFromSecond(h) == Join(SubSeq(h.name, PrefixLen, Len(h.name)), <<>>)

\* relativePath := filepath.Join(sections[3:]...)
RelativePathOf(h) == Join(SubSeq(h.name, PrefixLen + 1, Len(h.name)), <<>>)
\* subDir, _ := filepath.Split(relativePath)
SubDirOf(h) == SplitDir(RelativePathOf(h))
\* destPath := filepath.Join(dir, relativePath)
DestPath(h) == F(JoinRooted(dstDir, RelativePathOf(h)))
\* tmp := destPath + ".tmp"
TmpPath(h) == TmpOf(DestPath(h))

\* the names of the entries of an arbitrary archive
ArchNames ==
    { <<"db", "rp">>, <<"db", "rp", "1">>, <<"db", "rp", "1", "a">>,
      <<"db", "rp", "1", "d">>, <<"db", "rp", "1", "d", "f">>,
      <<"db", "rp", "1", "..", "x">> }

\* the payload of a regular entry of n bytes
Payload(n) == [i \in 1..n |-> i]

\* the entries an arbitrary archive is made of: regular files, directories
\* and symbolic links (a header-only type, whose header may still declare a
\* size)
ArchEntries ==
    { [name |-> nm, type |-> "reg", mode |-> 33188, size |-> n, data |-> Payload(n)] :
        nm \in ArchNames, n \in 0..MaxSize }
    \cup { [name |-> nm, type |-> "dir", mode |-> 16877, size |-> 0, data |-> <<>>] :
        nm \in ArchNames }
    \cup { [name |-> nm, type |-> "sym", mode |-> 511, size |-> n, data |-> <<>>] :
        nm \in ArchNames, n \in 0..1 }

\* a temporary file an interrupted restore left behind: longer than any payload
Leftover == [i \in 1..(MaxSize + 1) |-> 7]

\* an empty destination directory
EmptyDst == Put(<<>>, F(dstDir), DirNode(DefaultDirPerm))

\* the destination before a restore: empty, or holding an earlier version of
\* file a, a leftover a.tmp, or both
InitialDsts ==
    { EmptyDst,
      Put(EmptyDst, F(dstDir \o <<"a">>), FileNode(420, <<8>>)),
      Put(EmptyDst, TmpOf(F(dstDir \o <<"a">>)), FileNode(384, Leftover)),
      Put(Put(EmptyDst, F(dstDir \o <<"a">>), FileNode(420, <<8>>)),
          TmpOf(F(dstDir \o <<"a">>)), FileNode(384, Leftover)) }


\* Restore reads an archive that is not the output of Stream
ArbitraryArchive == scenario \in {"restore", "rerun"}

\* tr.Next: the next header of the archive; io.EOF at the end of the
\* archive; otherwise an error: a malformed or truncated header of an
\* arbitrary archive, a failed read of the underlying stream.  An arbitrary
\* archive is read as it comes: any entry may be next while fewer than
\* MaxEntries were read.
TrNext ==
    /\ rpc = "next"
    /\ \/ /\ arch # <<>>
          /\ hdr' = Head(arch)
          /\ arch' = Tail(arch)
          /\ nread' = nread + 1
          /\ rpc' = "extract"
          /\ rerr' = "nil"
       \/ /\ arch = <<>>
          /\ ArbitraryArchive
          /\ nread < MaxEntries
          /\ \E e \in ArchEntries : hdr' = e
          /\ nread' = nread + 1
          /\ rpc' = "extract"
          /\ rerr' = "nil"
          /\ arch' = arch
       \/ /\ arch = <<>>
          /\ hdr' = NoHdr
          /\ rerr' = "EOF"
          /\ rpc' = "ret"
          /\ UNCHANGED <<arch, nread>>
       \/ /\ hdr' = NoHdr
          /\ rerr' = IF ArbitraryArchive THEN "EDECODE" ELSE "EIO"
          /\ rpc' = "ret"
          /\ UNCHANGED <<arch, nread>>
    /\ fs0' = fs
    /\ copied' = 0
    /\ seen' = IF scenario = "rerun" /\ hdr' # NoHdr THEN Append(seen, hdr') ELSE seen
    /\ UNCHANGED <<scenario, streamVars, run, fs, fOpen, rres>>

\* extractFile after tr.Next: the check of the entry's name, the creation of
\* directories, and the call of CreateFileFromTar for any other entry.
ExtractFile ==
    /\ rpc = "extract"
    /\ \E ok \in BOOLEAN :
          IF TooFewSections(hdr.name)
          THEN /\ rerr' = "invalid archive path"
               /\ rpc' = "ret"
               /\ fs' = fs
          ELSE IF hdr.type = "dir"
          THEN LET r == MkdirAll(fs, JoinRooted(dstDir, SubDirOf(hdr)), Perm(hdr.mode)) IN
               /\ fs' = IF ok THEN r.fs ELSE fs
               /\ rerr' = IF ok THEN r.err ELSE "EIO"
               /\ rpc' = "ret"
          ELSE IF SubDirOf(hdr) # <<>>
          THEN LET r == MkdirAll(fs, JoinRooted(dstDir, SubDirOf(hdr)), DefaultDirPerm) IN
               /\ fs' = IF ok THEN r.fs ELSE fs
               /\ rerr' = IF ok THEN r.err ELSE "EIO"
               /\ rpc' = IF ok /\ r.err = "nil" THEN "open" ELSE "ret"
          ELSE /\ fs' = fs
               /\ rerr' = "nil"
               /\ rpc' = "open"
    /\ UNCHANGED <<scenario, streamVars, run, seen, arch, nread, hdr, fs0, copied, fOpen, rres>>

\* CreateFileFromTar: os.OpenFile(tmp, os.O_CREATE|os.O_RDWR, perm)
CreateOpen ==
    /\ rpc = "open"
    /\ \E ok \in BOOLEAN :
          LET r == OpenFile(fs, TmpPath(hdr), Perm(hdr.mode)) IN
          /\ fs' = IF ok THEN r.fs ELSE fs
          /\ rerr' = IF ok THEN r.err ELSE "EIO"
          /\ fOpen' = (ok /\ r.err = "nil")
          /\ rpc' = IF ok /\ r.err = "nil" THEN "copy" ELSE "ret"
    /\ UNCHANGED <<scenario, streamVars, run, seen, arch, nread, hdr, fs0, copied, rres>>

\* io.CopyN(f, tr, hdr.Size) moves one more byte of the payload into the
\* temporary file, or the write fails.
CopyByte ==
    /\ rpc = "copy"
    /\ copied < hdr.size
    /\ hdr.type = "reg"
    /\ copied < Len(hdr.data)
    /\ \E ok \in BOOLEAN :
          IF ok
          THEN /\ fs' = [fs EXCEPT ![TmpPath(hdr)].data =
                             WriteAt(@, copied, hdr.data[copied + 1])]
               /\ copied' = copied + 1
               /\ UNCHANGED <<rpc, rerr, fOpen>>
          ELSE /\ rerr' = "EIO"
               /\ rpc' = "ret"
               /\ fOpen' = FALSE
               /\ UNCHANGED <<fs, copied>>
    /\ UNCHANGED <<scenario, streamVars, run, seen, arch, nread, hdr, fs0, rres>>

\* io.CopyN gets fewer than hdr.Size bytes from tr.  tr.Read on a
\* header-only entry returns io.EOF whatever size the header declares, and
\* io.CopyN returns io.EOF; an archive that ends inside a regular entry's
\* payload makes tr.Read return io.ErrUnexpectedEOF.  The deferred f.Close
\* runs.
CopyShort ==
    /\ rpc = "copy"
    /\ copied < hdr.size
    /\ \/ /\ hdr.type # "reg"
          /\ rerr' = CopyN(hdr.size, 0).err
       \/ /\ hdr.type = "reg"
          /\ ArbitraryArchive \/ copied >= Len(hdr.data)
          /\ arch = <<>>
          /\ rerr' = "ErrUnexpectedEOF"
    /\ rpc' = "ret"
    /\ fOpen' = FALSE
    /\ UNCHANGED <<scenario, streamVars, run, seen, arch, nread, hdr, fs, fs0, copied, rres>>

\* io.CopyN has copied hdr.Size bytes and returns nil
CopyDone ==
    /\ rpc = "copy"
    /\ copied = hdr.size
    /\ rpc' = "sync"
    /\ UNCHANGED <<scenario, streamVars, run, seen, arch, nread, hdr, fs, fs0, copied, fOpen, rerr, rres>>

\* f.Sync()
CreateSync ==
    /\ rpc = "sync"
    /\ \E ok \in BOOLEAN :
          /\ rpc' = IF ok THEN "close" ELSE "ret"
          /\ rerr' = IF ok THEN "nil" ELSE "EIO"
          /\ fOpen' = ok
    /\ UNCHANGED <<scenario, streamVars, run, seen, arch, nread, hdr, fs, fs0, copied, rres>>

\* f.Close()
CreateClose ==
    /\ rpc = "close"
    /\ \E ok \in BOOLEAN :
          /\ rpc' = IF ok THEN "rename" ELSE "ret"
          /\ rerr' = IF ok THEN "nil" ELSE "EIO"
    /\ fOpen' = FALSE
    /\ UNCHANGED <<scenario, streamVars, run, seen, arch, nread, hdr, fs, fs0, copied, rres>>

\* return file.RenameFile(tmp, destPath)
CreateRename ==
    /\ rpc = "rename"
    /\ \E ok \in BOOLEAN :
          LET r == RenameFile(fs, TmpPath(hdr), DestPath(hdr)) IN
          /\ fs' = IF ok THEN r.fs ELSE fs
          /\ rerr' = IF ok THEN r.err ELSE "EIO"
    /\ rpc' = "ret"
    /\ UNCHANGED <<scenario, streamVars, run, seen, arch, nread, hdr, fs0, copied, fOpen, rres>>

\* Restore's loop on what extractFile returned: io.EOF ends the loop, any
\* other error is returned, nil goes on to the next entry.
RestoreLoop ==
    /\ rpc = "ret"
    /\ IF rerr = "EOF" THEN rpc' = "syncdir" /\ rres' = rres
       ELSE IF rerr # "nil" THEN rpc' = "done" /\ rres' = rerr
       ELSE rpc' = "next" /\ rres' = rres
    /\ UNCHANGED <<scenario, streamVars, run, seen, arch, nread, hdr, fs, fs0, copied, fOpen, rerr>>

\* return file.SyncDir(dir)
RestoreSyncDir ==
    /\ rpc = "syncdir"
    /\ \E ok \in BOOLEAN : rres' = SyncDir(fs, dstDir, ok)
    /\ rpc' = "done"
    /\ UNCHANGED <<scenario, streamVars, run, seen, arch, nread, hdr, fs, fs0, copied, fOpen, rerr>>

\* the stream a successful Stream produced is handed to Restore
RestoreStart ==
    /\ scenario = "roundtrip"
    /\ spc = "done"
    /\ sres = "nil"
    /\ rpc = "idle"
    /\ arch' = sink
    /\ rpc' = "next"
    /\ UNCHANGED <<scenario, streamVars, run, seen, nread, hdr, fs, fs0, copied, fOpen, rerr, rres>>

\* Restore is called again with the same archive and destination, after it
\* returned an error of the environment or the process stopped at any
\* point: the archive is read from its start, the destination is as the
\* first run left it, and the stopped process holds no handle.
RestoreAgain ==
    /\ scenario = "rerun"
    /\ run = 1
    /\ \/ rpc = "done" /\ rres = "EIO"
       \/ rpc \in {"next", "extract", "open", "copy", "sync", "close", "rename", "ret", "syncdir"}
    /\ run' = 2
    /\ arch' = seen \o arch
    /\ seen' = <<>>
    /\ nread' = 0
    /\ hdr' = NoHdr
    /\ fs0' = fs
    /\ copied' = 0
    /\ fOpen' = FALSE
    /\ rerr' = "nil"
    /\ rres' = "none"
    /\ rpc' = "next"
    /\ UNCHANGED <<scenario, streamVars, fs>>

-----------------------------------------------------------------------------

InitStream ==
    /\ scenario = "roundtrip"
    /\ tree \in Trees
    /\ keepTarOpen \in BOOLEAN
    /\ writeFunc \in {"nil", "SinceFilter"}
    /\ tarHeaderFileName = ""
    /\ spc = "walk"
    /\ rpc = "idle"
    /\ fs = EmptyDst

InitRename ==
    /\ scenario = "rename"
    /\ tree \in Trees \ {{}}
    /\ keepTarOpen = FALSE
    /\ writeFunc = "nil"
    /\ tarHeaderFileName \in TarNames
    /\ spc = "call"
    /\ rpc = "idle"
    /\ fs = EmptyDst

InitRestore ==
    /\ scenario = "restore"
    /\ tree = {}
    /\ keepTarOpen = FALSE
    /\ writeFunc = "nil"
    /\ tarHeaderFileName = ""
    /\ spc = "idle"
    /\ rpc = "next"
    /\ fs \in InitialDsts

\* a first run into a destination no restore has touched
InitRerun ==
    /\ scenario = "rerun"
    /\ tree = {}
    /\ keepTarOpen = FALSE
    /\ writeFunc = "nil"
    /\ tarHeaderFileName = ""
    /\ spc = "idle"
    /\ rpc = "next"
    /\ fs = EmptyDst

Init ==
    /\ InitStream \/ InitRestore \/ InitRename \/ InitRerun
    /\ run = 1
    /\ seen = <<>>
    /\ calls = <<>>
    /\ frOpen = 0
    /\ widx = 1
    /\ cur = NoInfo
    /\ sink = <<>>
    /\ twErr = FALSE
    /\ trailer = FALSE
    /\ serr = "nil"
    /\ sres = "none"
    /\ arch = <<>>
    /\ nread = 0
    /\ hdr = NoHdr
    /\ fs0 = fs
    /\ copied = 0
    /\ fOpen = FALSE
    /\ rerr = "nil"
    /\ rres = "none"

Next ==
    \/ WalkNext
    \/ WalkFn
    \/ WalkEnd
    \/ StreamReturn
    \/ StreamRenameFileCall
    \/ RestoreStart
    \/ TrNext
    \/ ExtractFile
    \/ CreateOpen
    \/ CopyByte
    \/ CopyShort
    \/ CopyDone
    \/ CreateSync
    \/ CreateClose
    \/ CreateRename
    \/ RestoreLoop
    \/ RestoreSyncDir
    \/ RestoreAgain

Spec == Init /\ [][Next]_vars

-----------------------------------------------------------------------------
(* Properties.                                                             *)

\* the entry decoded last is one extractFile hands to CreateFileFromTar
IsFileEntry == hdr # NoHdr /\ ~TooFewSections(hdr.name) /\ hdr.type # "dir"

\* the destination of the entry decoded last is as it was before the entry
DestUntouched ==
    LET d == DestPath(hdr) IN
    IF d \in DOMAIN fs0 THEN d \in DOMAIN fs /\ fs[d] = fs0[d] ELSE d \notin DOMAIN fs

\* the destination of the entry decoded last holds exactly its payload
DestComplete ==
    IsFileAt(fs, DestPath(hdr)) /\ fs[DestPath(hdr)].data = hdr.data

\* C1: at every point of CreateFileFromTar, also after an error return, the
\* destination is in its prior state (old contents or absent) or holds the
\* complete payload of the entry.
C1_DestPriorOrComplete ==
    IsFileEntry => (DestUntouched \/ DestComplete)

\* C2: an entry whose name has 3 or fewer segments makes extractFile fail
\* with "invalid archive path", and nothing is created or written for it.
C2_FewSegmentsRejected ==
    (hdr # NoHdr /\ Len(hdr.name) <= PrefixLen /\ rpc # "extract")
        => (rerr = "invalid archive path" /\ fs = fs0)

\* C3: when CreateFileFromTar returns success, the destination's contents
\* are exactly the entry's payload, whatever was at destination + ".tmp".
C3_SuccessMeansExactPayload ==
    (IsFileEntry /\ rpc = "ret" /\ rerr = "nil") => DestComplete

\* C4: Restore returns success only when tr.Next signalled the end of the
\* archive after every entry was processed; a short read of a payload is
\* never taken for the end of the archive.
C4_SuccessOnlyAtEndOfArchive ==
    rres = "nil" => (hdr = NoHdr /\ arch = <<>>)

\* C5: Stream with the default handler, then Restore into an empty
\* destination: every regular file of the tree is at the same relative path
\* with the same contents and permission bits, every directory exists.
C5_RoundTrip ==
    (scenario = "roundtrip" /\ writeFunc = "nil" /\ rres = "nil") =>
        \A id \in tree :
            LET p == F(dstDir \o NodeRel(id)) IN
            /\ NodeKind(id) = "reg" =>
                  /\ IsFileAt(fs, p)
                  /\ fs[p].data = NodeContent(id)
                  /\ fs[p].perm = NodePerm(id)
            /\ NodeKind(id) = "dir" => IsDirAt(fs, p)

\* C6: with the destination absent before the entry: until the rename the
\* destination does not exist, and at the rename the temporary file does;
\* once the destination exists it holds the full payload, no temporary file
\* remains, and all bytes were copied and the file closed before.
C6_CrashPoints ==
    (IsFileEntry /\ DestPath(hdr) \notin DOMAIN fs0) =>
        /\ rpc \in {"open", "copy", "sync", "close", "rename"} =>
              DestPath(hdr) \notin DOMAIN fs
        /\ rpc = "rename" => TmpPath(hdr) \in DOMAIN fs
        /\ DestPath(hdr) \in DOMAIN fs =>
              /\ DestComplete
              /\ TmpPath(hdr) \notin DOMAIN fs
              /\ copied = hdr.size
              /\ ~fOpen

\* C7: with keepTarOpen no end-of-archive marker is ever written; without
\* it, Stream returns success only with the marker written.
C7_EndMarkers ==
    /\ keepTarOpen => ~trailer
    /\ (~keepTarOpen /\ sres = "nil") => trailer

\* the name the archive gives the entry with this id: the prefix, then the
\* entry's path below the root (the root's own base name for the root)
ExpectedName(id) == relativePath \o (IF id = 0 THEN <<Last(srcDir)>> ELSE NodeRel(id))

InArchive(id) == \E i \in 1..Len(sink) : sink[i].name = ExpectedName(id)

\* the walk function has returned nil for the entry cur
Handled == cur # NoInfo /\ spc # "fn" /\ serr = "nil"

\* C8 as stated: with the SinceFilterTarFile handler, a filesystem entry the
\* walk has visited is in the archive if and only if its modification time
\* is strictly after the cutoff.
C8_EveryEntryFiltered ==
    (writeFunc = "SinceFilter" /\ Handled) =>
        (InArchive(cur.id) <=> cur.mtime > since)

\* C8 amended: with the SinceFilterTarFile handler, an entry handed to the
\* handler (any entry below the root, and the root when keepTarOpen is set)
\* is in the archive if and only if its modification time is strictly after
\* the cutoff; the root is never in it when keepTarOpen is unset.
C8_SinceFilter ==
    (writeFunc = "SinceFilter" /\ Handled) =>
        IF IsRoot(cur) /\ ~keepTarOpen
        THEN ~InArchive(cur.id)
        ELSE (InArchive(cur.id) <=> cur.mtime > since)

C8_Witness ==
    /\ writeFunc = "SinceFilter"
    /\ Handled
    /\ ~IsRoot(cur)
    /\ cur.mtime = since
    /\ ~InArchive(cur.id)

C10_ShortCopyFails ==
    \A i \in 1..Len(sink) :
        /\ (sink[i].type = "reg" /\ Len(sink[i].data) < sink[i].size) =>
              (serr # "nil" /\ sres # "nil")
        /\ sres = "nil" => Len(sink[i].data) = sink[i].size

C10_Witness ==
    /\ sink # <<>>
    /\ Last(sink).type = "reg"
    /\ Len(Last(sink).data) < Last(sink).size
    /\ Len(Last(sink).data) > 0
    /\ serr = "EOF"
    /\ sres = "EOF"

-----------------------------------------------------------------------------
(* Stream: error policy, naming, the root's entry.                         *)

\* C11: once the walk or the handler has returned an error, the handler is
\* not invoked again and no further entry is visited, the entries already in
\* the sink stay as they are, and Stream returns that same error.
C11_AbortOnFirstError ==
    [][ /\ serr # "nil" =>
              /\ spc' # "fn"
              /\ cur' = cur
              /\ widx' = widx
              /\ sink' = sink
              /\ serr' = serr
        /\ spc' = "done" => sres' = serr' ]_vars

\* Stream has returned the handler's error with an entry in the sink and
\* entries of the tree not visited
C11_Witness ==
    /\ spc = "done"
    /\ serr # "nil"
    /\ sres = serr
    /\ sink # <<>>
    /\ Pending # {}

\* the segments of a name
Segments(name) == {name[i] : i \in 1..Len(name)}

\* C12: a direct call of StreamRenameFile for a regular file that returns
\* nil has recorded exactly one entry, named logical path / tarHeaderFileName,
\* in which the on-disk base name does not appear unless it is the name
\* given, with the file's contents as payload; an error return leaves at most
\* that one entry; StreamFile is StreamRenameFile with the file's base name.
C12_RenameOnStream ==
    /\ (scenario = "rename" /\ spc = "called" /\ cur.kind = "reg") =>
          /\ Len(sink) <= 1
          /\ serr = "nil" =>
                /\ Len(sink) = 1
                /\ sink[1].name = relativePath \o Front(NodeRel(cur.id)) \o <<tarHeaderFileName>>
                /\ tarHeaderFileName # NodeName(cur.id) =>
                      NodeName(cur.id) \notin Segments(sink[1].name)
                /\ sink[1].type = "reg"
                /\ sink[1].data = NodeContent(cur.id)
                /\ sink[1].size = Len(NodeContent(cur.id))
    /\ cur # NoInfo =>
          \A env \in StreamEnvs(cur) :
              StreamFile(cur, HandlerPath(cur), env) =
                  StreamRenameFile(cur, NodeName(cur.id), HandlerPath(cur), env)

\* file d/f was recorded as db/rp/1/d/n with its contents
C12_Witness ==
    /\ scenario = "rename"
    /\ spc = "called"
    /\ serr = "nil"
    /\ cur.id = 3
    /\ tarHeaderFileName = "n"
    /\ sink = << [name |-> <<"db", "rp", "1", "d", "n">>, type |-> "reg", mode |-> 384,
                  size |-> 1, data |-> <<3>>] >>

-----------------------------------------------------------------------------
(* Restore: directories, the final sync, re-runs, handles, containment.    *)

\* C13: when extractFile returns nil for a directory entry named prefix/p,
\* the directory p exists under the destination root, with the entry's
\* permission bits if the entry created it.
C13_DirectoryCreated ==
    (hdr.type = "dir" /\ Len(hdr.name) > PrefixLen /\ rpc = "ret" /\ rerr = "nil") =>
        /\ IsDirAt(fs, DestPath(hdr))
        /\ DestPath(hdr) \notin DOMAIN fs0 => fs[DestPath(hdr)].perm = Perm(hdr.mode)

\* the number of times the handler was invoked for the root directory
RootCalls == Cardinality({i \in 1..Len(calls) : calls[i].id = 0})

\* the walk function has returned for the root directory
RootVisited == widx > 1 /\ ~(spc = "fn" /\ cur.id = 0)

\* C14: Stream invokes the handler for the root exactly once when
\* keepTarOpen is set and never when it is unset; when keepTarOpen is set and
\* Stream returns success, the sink holds at least one entry, with the
\* default handler and with a SinceFilterTarFile handler alike.
C14_RootEntry ==
    scenario = "roundtrip" =>
        /\ RootCalls <= 1
        /\ ~keepTarOpen => RootCalls = 0
        /\ (keepTarOpen /\ RootVisited) => RootCalls = 1
        /\ (keepTarOpen /\ sres = "nil") => sink # <<>>

C16_SyncThenSuccess ==
    [][ run' = run =>
        /\ (rres # "nil" /\ rres' = "nil") => (rpc = "syncdir" /\ IsDirAt(fs, F(dstDir)))
        /\ rpc \in {"syncdir", "done"} => fs' = fs
        /\ (rpc = "ret" /\ rerr # "nil" /\ hdr # NoHdr) => (rpc' = "done" /\ rres' = rerr)
        /\ (rpc = "ret" /\ rerr # "nil") =>
              (rpc' \in {"syncdir", "done"} /\ UNCHANGED <<nread, arch, hdr>>) ]_vars

\* p is a proper prefix of q
IsProperPrefix(p, q) == Len(p) < Len(q) /\ SubSeq(q, 1, Len(p)) = p

\* an archive Restore is meant to accept: every name has segments after the
\* prefix, and no entry that is a file lies on the path of another entry
ValidArchive(entries) ==
    /\ \A i \in 1..Len(entries) : Len(entries[i].name) > PrefixLen
    /\ \A i, j \in 1..Len(entries) :
          entries[i].type # "dir" =>
              ~IsProperPrefix(RelativePathOf(entries[i]), RelativePathOf(entries[j]))

\* results of Restore that come from the environment or from an archive cut
\* short, not from the entries decoded
Transient == {"EIO", "EDECODE", "ErrUnexpectedEOF"}

\* the payload of the last file entry of the archive extracted to destination d
LastPayload(entries, d) ==
    LET files == {i \in 1..Len(entries) : entries[i].type # "dir" /\ DestPath(entries[i]) = d}
        k == CHOOSE i \in files : \A j \in files : j <= i
    IN  entries[k].data

\* C17: the re-run of Restore on the same archive and destination, after a
\* first run that failed or stopped at any point, succeeds unless the
\* environment fails again, and then every entry's file holds its full
\* contents and no temporary file remains for any entry.
C17_RerunCompletes ==
    (scenario = "rerun" /\ run = 2 /\ rpc = "done" /\ ValidArchive(seen)
        /\ rres \notin Transient) =>
        /\ rres = "nil"
        /\ \A i \in 1..Len(seen) :
              seen[i].type # "dir" =>
                  /\ IsFileAt(fs, DestPath(seen[i]))
                  /\ fs[DestPath(seen[i])].data = LastPayload(seen, DestPath(seen[i]))
                  /\ TmpPath(seen[i]) \notin DOMAIN fs

\* C18: when StreamRenameFile has returned, with or without an error, it
\* holds no source file open; when CreateFileFromTar has returned, with or
\* without an error, the temporary file's handle is closed; so no handle is
\* open after Stream or Restore returns.
C18_HandlesClosed ==
    /\ frOpen = 0
    /\ rpc \in {"idle", "next", "extract", "ret", "syncdir", "done"} => ~fOpen

\* StreamRenameFile has copied a file's payload from its handle, and
\* CreateFileFromTar has returned an error after it had opened the temporary
\* file and written to it
C18_Witness ==
    /\ scenario = "roundtrip"
    /\ \E i \in 1..Len(sink) : sink[i].type = "reg" /\ Len(sink[i].data) > 0
    /\ frOpen = 0
    /\ rpc = "ret"
    /\ rerr = "EIO"
    /\ copied > 0
    /\ TmpPath(hdr) \in DOMAIN fs
    /\ ~fOpen

\* the path lies under the destination root, or is the root itself
UnderDst(p) == IsProperPrefix(dstDir, p.segs) \/ p = F(dstDir)

\* C19: whatever the names of the entries hold, every file, temporary file
\* and directory of the filesystem lies under the destination root (the
\* filesystem holds nothing else before Restore).
C19_Containment ==
    \A p \in DOMAIN fs : UnderDst(p)

====
